---- MODULE Spec2Model ----
(***************************************************************************)
(* Model of the KatanaOpenAssetIO "preflight" workflow:                    *)
(*   - KatanaOpenAssetIOPatches.py: the decorated                          *)
(*     PreCreateProductAndLocation / PostCreateProductAndLocation and the  *)
(*     RenderNodeInfo subclass;                                            *)
(*   - OpenAssetIOWidgetDelegate.py: the Reset button handler of           *)
(*     OpenKatanaAssetIOAssetRenderWidget.                                 *)
(* The Render node's `outputs.preflight` parameter group and one           *)
(* RenderNodeInfo object are the program state; the host's original        *)
(* functions are the environment and choose their outcome freely.         *)
(***************************************************************************)
EXTENDS Integers, Sequences, FiniteSets, TLC

\* Number of distinct working references the asset manager can hand out.
MaxRefs == 2

\* The outputs of the Render node, in index order (idx -> outputName).
NodeOutputs == <<"beauty", "depth">>

Names == {NodeOutputs[i] : i \in 1..Len(NodeOutputs)}

\* Python's None, for parameters, asset ids and names.
None == <<"None", 0>>

NoName == "<None>"

Refs == {<<"working", k>> : k \in 1..MaxRefs}

Errors == {"RuntimeError"}

Txns == {"None", "txn"}

OutputIndex(n) == CHOOSE i \in 1..Len(NodeOutputs) : NodeOutputs[i] = n

(***************************************************************************)
(* Location settings: the attribute group attrs["locationSettings"].       *)
(***************************************************************************)
SettingKeys == {"renderLocation", "locationType"}

NoSettings == [k \in SettingKeys |-> None]

\* The settings coming from the upstream RenderOutputDefine node.
UpstreamLocationSettings(n) ==
    [k \in SettingKeys |->
        IF k = "renderLocation" THEN <<"upstream", OutputIndex(n)>>
                                ELSE <<"file", OutputIndex(n)>>]

(***************************************************************************)
(* Results of calls: None, an output_info dictionary, or a raised error.   *)
(***************************************************************************)
NoneResult ==
    [kind |-> "None", outputName |-> NoName, assetId |-> None,
     err |-> "", locationSettings |-> NoSettings]

Raised(e) ==
    [kind |-> "raise", outputName |-> NoName, assetId |-> None,
     err |-> e, locationSettings |-> NoSettings]

OutputInfo(n, id, ls) ==
    [kind |-> "info", outputName |-> n, assetId |-> id,
     err |-> "", locationSettings |-> ls]

VARIABLES
    preflight_param,   \* the node's `outputs.preflight` group
    outputList,        \* RenderNodeInfo.__outputList of the live info object
    invoked,           \* per output: the last operation invoked for it
    armed,             \* per output: reference of the last effective pre-publish
    last,              \* record of the last call and its observable effects
    nchildren          \* per output: number of child parameters of that name

patchVars == <<preflight_param, outputList, invoked, armed, last, nchildren>>

VARIABLES
    widget,            \* the live OpenKatanaAssetIOAssetRenderWidget
    wlast              \* record of the last widget call

widgetVars == <<widget, wlast>>

VARIABLES
    service,           \* the shared UIDelegateService
    discoveries,       \* number of UI-delegate discoveries attempted so far
    queries,           \* number of host asset-plugin queries so far
    slast              \* record of the last service / widget-delegate call

serviceVars == <<service, discoveries, queries, slast>>

VARIABLES
    control,           \* the live OpenKatanaAssetIOControlWidget
    clast,             \* record of the last call on it
    frame,             \* the live OpenKatanaAssetIOBrowserFrame
    flast              \* record of the last call on it

controlVars == <<control, clast>>

frameVars == <<frame, flast>>

delegatedVars == <<controlVars, frameVars>>

vars == <<patchVars, widgetVars, serviceVars, delegatedVars>>

(***************************************************************************)
(* The parameter tree.                                                     *)
(***************************************************************************)
NoGroup == [exists |-> FALSE, child |-> [n \in Names |-> None]]

\* node.getParameter("outputs.preflight.<name>") / preflight_param.getChild
GetPreflightChild(pp, n) ==
    IF pp.exists /\ n \in Names THEN pp.child[n] ELSE None

Preflighted(n) == GetPreflightChild(preflight_param, n) # None

(***************************************************************************)
(* PreCreateProductAndLocation / PostCreateProductAndLocation.             *)
(***************************************************************************)
\* What the host's original publish-start / publish-finish can produce for
\* the output at index idx: None (not an asset id), an output_info
\* dictionary with the output's name and a working reference, or an error.
OriginalOutcomes(idx) ==
    {NoneResult}
      \cup {Raised(e) : e \in Errors}
      \cup {OutputInfo(NodeOutputs[idx], r, NoSettings) : r \in Refs}

\* Mutant: the transaction is not forwarded.
UnderlyingArgs_DropsTxn(idx, versionup, assetTxn) ==
    [idx |-> idx, versionup |-> versionup, assetTxn |-> "None"]

\* The arguments the wrappers hand to the original function.
UnderlyingArgs(idx, versionup, assetTxn) ==
    [idx |-> idx, versionup |-> versionup, assetTxn |-> assetTxn]

\* Mutant: an existing entry is kept instead of being overwritten.
PreStore_NoOverwrite(pp, output_info) ==
    LET group == IF ~pp.exists
                 THEN [exists |-> TRUE, child |-> [n \in Names |-> None]]
                 ELSE pp
    IN  IF group.child[output_info.outputName] # None
        THEN group
        ELSE [group EXCEPT !.child[output_info.outputName] = output_info.assetId]

\* Lines 45-56: store the working reference under outputs.preflight.
PreStore(pp, output_info) ==
    LET output_name == output_info.outputName
        preflight_asset_id == output_info.assetId
        group == IF ~pp.exists
                 THEN [exists |-> TRUE, child |-> [n \in Names |-> None]]
                 ELSE pp
    IN  IF group.child[output_name] # None
        THEN [group EXCEPT !.child[output_name] = preflight_asset_id]
        ELSE [group EXCEPT !.child[output_name] = preflight_asset_id]

\* Mutant: the preflight group is created before the None check.
PreParams_AlwaysCreatesGroup(pp, under) ==
    IF under.kind = "info" THEN PreStore(pp, under)
    ELSE [pp EXCEPT !.exists = TRUE]

\* Mutant: createChildString is called without looking for the child.
PreCreatesChild_Always(pp, output_info) == TRUE

\* Lines 53-56: TRUE iff the wrapper reaches createChildString.
PreCreatesChild(pp, output_info) ==
    GetPreflightChild(pp, output_info.outputName) = None

\* Lines 83-84: TRUE iff the wrapper reaches deleteChild.
PostDeletesChild(pp, output_info) ==
    GetPreflightChild(pp, output_info.outputName) # None

\* The parameter tree after the pre-publish wrapper, given the outcome of
\* the original function.
PreParams(pp, under) ==
    IF under.kind = "info" THEN PreStore(pp, under) ELSE pp

\* Mutant: the entry is looked up but not deleted.
PostDelete_KeepsEntry(pp, output_info) == pp

\* Mutant: the whole preflight group is emptied.
PostDelete_DeletesAll(pp, output_info) ==
    IF pp.exists /\ pp.child[output_info.outputName] # None
    THEN [pp EXCEPT !.child = [n \in Names |-> None]]
    ELSE pp

\* Lines 81-84: delete the entry of the output, if there is one.
PostDelete(pp, output_info) ==
    IF pp.exists
    THEN LET output_name == output_info.outputName
         IN  IF pp.child[output_name] # None
             THEN [pp EXCEPT !.child[output_name] = None]
             ELSE pp
    ELSE pp

PostParams(pp, under) ==
    IF under.kind = "info" THEN PostDelete(pp, under) ELSE pp

\* Mutant: a failure of the original function is swallowed.
WrapperReturn_SwallowsError(under) ==
    IF under.kind = "info" THEN under ELSE NoneResult

\* What the wrappers give back to their caller.
WrapperReturn(under) ==
    IF under.kind = "None" THEN NoneResult ELSE under

NoArgs == [idx |-> 0, versionup |-> FALSE, assetTxn |-> "None"]

Call(op, name, index, args, underArgs, calls, under, ret, lookups) ==
    [op |-> op, name |-> name, index |-> index, args |-> args,
     underArgs |-> underArgs, calls |-> calls, under |-> under, ret |-> ret,
     lookups |-> lookups, before |-> preflight_param,
     listBefore |-> outputList, parent |-> FALSE, resyncs |-> 0]

PreCreateProductAndLocation(idx, versionup, assetTxn) ==
    LET passed == UnderlyingArgs(idx, versionup, assetTxn)
    IN  \E under \in OriginalOutcomes(passed.idx) :
          /\ preflight_param' = PreParams(preflight_param, under)
          /\ invoked' = [invoked EXCEPT ![NodeOutputs[idx]] = "pre"]
          /\ armed' = IF under.kind = "info"
                      THEN [armed EXCEPT ![under.outputName] = under.assetId]
                      ELSE armed
          /\ last' = Call("pre", NodeOutputs[idx], idx,
                          [idx |-> idx, versionup |-> versionup,
                           assetTxn |-> assetTxn],
                          passed, 1, under, WrapperReturn(under), 0)
          /\ nchildren' = IF under.kind = "info"
                                /\ PreCreatesChild(preflight_param, under)
                           THEN [nchildren EXCEPT ![under.outputName] = @ + 1]
                           ELSE nchildren
          /\ UNCHANGED outputList

PostCreateProductAndLocation(idx, versionup, assetTxn) ==
    LET passed == UnderlyingArgs(idx, versionup, assetTxn)
    IN  \E under \in OriginalOutcomes(passed.idx) :
          /\ preflight_param' = PostParams(preflight_param, under)
          /\ invoked' = [invoked EXCEPT ![NodeOutputs[idx]] = "post"]
          /\ armed' = IF under.kind = "info"
                      THEN [armed EXCEPT ![under.outputName] = None]
                      ELSE armed
          /\ last' = Call("post", NodeOutputs[idx], idx,
                          [idx |-> idx, versionup |-> versionup,
                           assetTxn |-> assetTxn],
                          passed, 1, under, WrapperReturn(under), 0)
          /\ nchildren' = IF under.kind = "info"
                                /\ PostDeletesChild(preflight_param, under)
                           THEN [nchildren EXCEPT ![under.outputName] = @ - 1]
                           ELSE nchildren
          /\ UNCHANGED outputList

(***************************************************************************)
(* OpenKatanaAssetIOAssetRenderWidget.__on_reset_button_clicked.           *)
(***************************************************************************)
\* Mutant: the handler does not ask for the parent editor.
ResetDeletes_IgnoresParent(pp, parentAvailable, output_name) ==
    /\ pp.exists
    /\ output_name # NoName
    /\ GetPreflightChild(pp, output_name) # None

\* TRUE iff the handler reaches deleteChild (and manualSyncIncoming).
ResetDeletes(pp, parentAvailable, output_name) ==
    /\ parentAvailable
    /\ pp.exists
    /\ output_name # NoName
    /\ GetPreflightChild(pp, output_name) # None

ResetParams(pp, parentAvailable, output_name) ==
    IF ResetDeletes(pp, parentAvailable, output_name)
    THEN [pp EXCEPT !.child[output_name] = None]
    ELSE pp

\* Mutant: the handler forgets to re-sync the editor.
ResetResyncs_Never(pp, parentAvailable, output_name) == 0

\* Line 599: the manualSyncIncoming() calls of the Reset handler.
ResetResyncs(pp, parentAvailable, output_name) ==
    IF ResetDeletes(pp, parentAvailable, output_name) THEN 1 ELSE 0

OnResetButtonClicked(output_name, parentAvailable) ==
    /\ preflight_param' = ResetParams(preflight_param, parentAvailable, output_name)
    /\ invoked' = IF output_name \in Names
                  THEN [invoked EXCEPT ![output_name] = "reset"]
                  ELSE invoked
    /\ armed' = IF output_name \in Names /\ parentAvailable
                THEN [armed EXCEPT ![output_name] = None]
                ELSE armed
    /\ last' = [Call("reset", output_name, 0, NoArgs, NoArgs, 0,
                     NoneResult, NoneResult, 0)
                   EXCEPT !.parent = parentAvailable,
                          !.resyncs = ResetResyncs(preflight_param,
                                                   parentAvailable, output_name)]
    /\ nchildren' = IF ResetDeletes(preflight_param, parentAvailable, output_name)
                     THEN [nchildren EXCEPT ![output_name] = @ - 1]
                     ELSE nchildren
    /\ UNCHANGED outputList

(***************************************************************************)
(* OpenKatanaAssetIOAssetRenderWidget.                                     *)
(***************************************************************************)
\* __is_using_preflight_asset_id is None, True or False.
BoolStr(b) == IF b THEN "True" ELSE "False"

\* Mutant: the button is hidden exactly when the output is preflighted.
ResetHidden_Inverted(known) == known = "True"

\* Line 527: setHidden(not self.__is_using_preflight_asset_id).
ResetHidden(known) == known # "True"

\* buildWidgets: the state is None, and the updateWidgets() call at its end
\* finds no parent RenderNodeEditor, so it only sets the button.
NewWidget(name) ==
    [name |-> name, known |-> "None", hidden |-> ResetHidden("None"),
     parent |-> FALSE]

\* Lines 546-550: is_using_preflight_asset_id.
ObservedPreflight(pp, output_name) ==
    GetPreflightChild(pp, output_name) # None

\* Mutant: only the start of a preflight is noticed.
PreflightStateChanged_OnlyStart(observed, known) ==
    observed = "True" /\ known = "False"

\* Line 558.
PreflightStateChanged(observed, known) == observed # known

\* __maybe_update_parent_if_preflight_state_changed: the widget afterwards
\* and whether manualSyncIncoming() was called; the re-sync destroys the
\* widget and the editor builds a new one for the same output.
\* `self` is the instance the method ran on, as the method leaves it.
MaybeUpdateParent(w, pp) ==
    LET observed == BoolStr(ObservedPreflight(pp, w.name))
    IN  IF w.known = "None"
        THEN [w |-> [w EXCEPT !.known = observed],
              self |-> [w EXCEPT !.known = observed], resync |-> FALSE]
        ELSE IF PreflightStateChanged(observed, w.known)
        THEN [w |-> NewWidget(w.name), self |-> w, resync |-> TRUE]
        ELSE [w |-> w, self |-> w, resync |-> FALSE]

\* Mutant: a changed state is taken over by the instance, which then goes
\* on to refresh its button and label.
UpdateWidgets_InPlace(w, pp) ==
    LET observed == BoolStr(ObservedPreflight(pp, w.name))
        known == IF w.parent THEN observed ELSE w.known
        changed == w.parent /\ w.known # "None" /\ observed # w.known
        after == [w EXCEPT !.known = known, !.hidden = ResetHidden(known)]
    IN  [w |-> IF changed THEN NewWidget(w.name) ELSE after, self |-> after,
         resync |-> changed, lookups |-> IF w.parent THEN 1 ELSE 0,
         sets |-> 1]

\* Mutant: the preflight parameter is looked up on construction as well.
UpdateWidgets_EagerLookup(w, pp) ==
    LET r == MaybeUpdateParent(w, pp)
        after == [r.self EXCEPT !.hidden = ResetHidden(r.self.known)]
    IN  IF r.resync
        THEN [w |-> r.w, self |-> r.self, resync |-> TRUE, lookups |-> 1,
              sets |-> 0]
        ELSE [w |-> after, self |-> after, resync |-> FALSE, lookups |-> 1,
              sets |-> 1]

\* updateWidgets: the live widget afterwards, the instance it ran on as it
\* leaves it, whether a re-sync was requested, the lookups of the preflight
\* parameter and the setHidden/setText pairs executed (lines 527, 537).
UpdateWidgets(w, pp) ==
    IF w.parent
    THEN LET r == MaybeUpdateParent(w, pp)
             after == [r.self EXCEPT !.hidden = ResetHidden(r.self.known)]
         IN  IF r.resync
             THEN [w |-> r.w, self |-> r.self, resync |-> TRUE,
                   lookups |-> 1, sets |-> 0]
             ELSE [w |-> after, self |-> after, resync |-> FALSE,
                   lookups |-> 1, sets |-> 1]
    ELSE LET after == [w EXCEPT !.hidden = ResetHidden(w.known)]
         IN  [w |-> after, self |-> after, resync |-> FALSE, lookups |-> 0,
              sets |-> 1]

\* The record of a call on the live widget: its fields before the call,
\* the instance as the call leaves it, and what the call did.
WCall(op, resyncs, self, lookups, sets) ==
    [op |-> op, name |-> widget.name, known |-> widget.known,
     parent |-> widget.parent, hidden |-> widget.hidden,
     resyncs |-> resyncs, self |-> self, lookups |-> lookups, sets |-> sets,
     before |-> GetPreflightChild(preflight_param, widget.name)]

\* The host puts the widget under its RenderNodeEditor.
HostAttachesWidget ==
    /\ ~widget.parent
    /\ widget' = [widget EXCEPT !.parent = TRUE]
    /\ wlast' = WCall("attach", 0, [widget EXCEPT !.parent = TRUE], 0, 0)
    /\ UNCHANGED <<patchVars, serviceVars, delegatedVars>>

updateWidgets ==
    LET r == UpdateWidgets(widget, preflight_param)
    IN  /\ widget' = r.w
        /\ wlast' = WCall("update", IF r.resync THEN 1 ELSE 0, r.self,
                           r.lookups, r.sets)
        /\ UNCHANGED <<patchVars, serviceVars, delegatedVars>>

\* The user clicks the Reset button of the live widget, which takes the
\* button to be shown.
on_reset_button_clicked ==
    LET n == ResetResyncs(preflight_param, widget.parent, widget.name)
    IN  /\ ~widget.hidden
        /\ preflight_param' =
               ResetParams(preflight_param, widget.parent, widget.name)
        /\ widget' = IF n > 0 THEN NewWidget(widget.name) ELSE widget
        /\ wlast' = WCall("reset", n, widget, IF widget.parent THEN 1 ELSE 0, 0)
        /\ UNCHANGED <<outputList, invoked, armed, last, nchildren, serviceVars, delegatedVars>>

\* 'Pre-Render Publish Asset' / 'Post-Render Publish Asset' seen from the
\* widget: the preflight entry of an output appears or goes.
PublishStarted(n, r) ==
    /\ preflight_param' = PreStore(preflight_param, OutputInfo(n, r, NoSettings))
    /\ wlast' = WCall("pre", 0, widget, 0, 0)
    /\ UNCHANGED <<outputList, invoked, armed, last, nchildren, widget,
                   serviceVars, delegatedVars>>

PublishFinished(n) ==
    /\ preflight_param' = PostDelete(preflight_param, OutputInfo(n, None, NoSettings))
    /\ wlast' = WCall("post", 0, widget, 0, 0)
    /\ UNCHANGED <<outputList, invoked, armed, last, nchildren, widget,
                   serviceVars, delegatedVars>>

(***************************************************************************)
(* UIDelegateService.                                                      *)
(***************************************************************************)
\* How often the host asset plugin can be queried in one behaviour.
MaxQueries == 3

\* What UIDelegateFactory.defaultUIDelegateForInterface can do.
DiscoveryOutcomes == {"delegate", "None", "InputValidationException", "Exception"}

\* What the host asset plugin can do when asked for manager and context.
\* "incomplete": the result dictionary holds a manager but no context, so
\* line 193 raises KeyError after line 192 has stored the manager. (A
\* result without manager raises at line 192 with nothing stored, as
\* "raises" does.)
HostOutcomes == {"absent", "raises", "incomplete", "ok"}

DelegateErrors == {"RuntimeError", "ValueError"}

NoPair == [manager |-> None, context |-> None]

\* UIDelegateService.__init__
NewService ==
    [ui_delegate |-> "NotImplemented", manager |-> None, context |-> None]

\* Mutant: only the manager is forgotten.
ResetManager_KeepsContext(svc) == [svc EXCEPT !.manager = None]

\* UIDelegateService.reset_manager
ResetManager(svc) == [svc EXCEPT !.manager = None, !.context = None]

\* Mutant: every failure is reported as an error.
DiscoveryLog_AlwaysError(disc) ==
    IF disc \in {"InputValidationException", "Exception"} THEN "error" ELSE "none"

\* Lines 162-167: the level at which a failed discovery is logged.
DiscoveryLog(disc) ==
    CASE disc = "InputValidationException" -> "debug"
      [] disc = "Exception" -> "error"
      [] OTHER -> "none"

\* Mutant: after a failure the sentinel is left in place.
UiDelegate_RetriesAfterFailure(svc, disc) ==
    IF svc.ui_delegate # "NotImplemented"
    THEN [svc |-> svc, ret |-> svc.ui_delegate, attempts |-> 0, log |-> "none"]
    ELSE IF disc = "delegate"
    THEN [svc |-> [svc EXCEPT !.ui_delegate = "delegate"], ret |-> "delegate",
          attempts |-> 1, log |-> "none"]
    ELSE [svc |-> svc, ret |-> "None", attempts |-> 1, log |-> DiscoveryLog(disc)]

\* UIDelegateService.ui_delegate: the service afterwards, the value
\* returned, the discoveries attempted and what was logged.
UiDelegate(svc, disc) ==
    IF svc.ui_delegate # "NotImplemented"
    THEN [svc |-> svc, ret |-> svc.ui_delegate, attempts |-> 0, log |-> "none"]
    ELSE IF disc = "delegate"
    THEN [svc |-> [svc EXCEPT !.ui_delegate = "delegate"], ret |-> "delegate",
          attempts |-> 1, log |-> "none"]
    ELSE [svc |-> [svc EXCEPT !.ui_delegate = "None"], ret |-> "None",
          attempts |-> 1, log |-> DiscoveryLog(disc)]

\* Mutant: a cached manager alone counts as a cached pair.
ManagerAndContext_UsesHalfCache(svc, host, k) ==
    IF svc.manager # None
    THEN [svc |-> svc, queried |-> 0, raised |-> "",
          ret |-> [manager |-> svc.manager, context |-> svc.context]]
    ELSE CASE host = "absent" ->
                [svc |-> svc, queried |-> 1, raised |-> "", ret |-> NoPair]
           [] host = "raises" ->
                [svc |-> svc, queried |-> 1, raised |-> "RuntimeError",
                 ret |-> NoPair]
           [] host = "incomplete" ->
                [svc |-> [svc EXCEPT !.manager = <<"manager", k>>],
                 queried |-> 1, raised |-> "KeyError", ret |-> NoPair]
           [] OTHER ->
                [svc |-> [svc EXCEPT !.manager = <<"manager", k>>,
                                     !.context = <<"context", k>>],
                 queried |-> 1, raised |-> "",
                 ret |-> [manager |-> <<"manager", k>>,
                          context |-> <<"context", k>>]]

\* UIDelegateService.manager_and_context: k numbers the pair the host
\* hands out if it is asked now.
ManagerAndContext(svc, host, k) ==
    IF svc.manager # None /\ svc.context # None
    THEN [svc |-> svc, queried |-> 0, raised |-> "",
          ret |-> [manager |-> svc.manager, context |-> svc.context]]
    ELSE CASE host = "absent" ->
                [svc |-> svc, queried |-> 1, raised |-> "", ret |-> NoPair]
           [] host = "raises" ->
                [svc |-> svc, queried |-> 1, raised |-> "RuntimeError",
                 ret |-> NoPair]
           [] host = "incomplete" ->
                [svc |-> [svc EXCEPT !.manager = <<"manager", k>>],
                 queried |-> 1, raised |-> "KeyError", ret |-> NoPair]
           [] OTHER ->
                [svc |-> [svc EXCEPT !.manager = <<"manager", k>>,
                                     !.context = <<"context", k>>],
                 queried |-> 1, raised |-> "",
                 ret |-> [manager |-> <<"manager", k>>,
                          context |-> <<"context", k>>]]

(***************************************************************************)
(* Entity references and the states the external UI delegate reports.      *)
(***************************************************************************)
\* How many entity references a state of the delegate carries at most.
MaxSelected == 2

\* The strings the manager accepts as entity references.
RefStrings == {"asset://a", "asset://b"}

\* The strings the host passes to setValue: references, a file path, "".
ValueStrings == RefStrings \cup {"/tmp/file", ""}

EntityReference(str) == <<"ref", str>>

\* EntityReference.toString
toString(entity_ref) == entity_ref[2]

EntityReferences == {EntityReference(str) : str \in RefStrings}

\* manager.createEntityReferenceIfValid
CreateEntityReferenceIfValid(value) ==
    IF value \in RefStrings THEN EntityReference(value) ELSE None

\* The lists entityReferences() returns: a selection names an entity once.
RefLists ==
    {refs \in UNION {[1..n -> EntityReferences] : n \in 0..MaxSelected} :
        \A i, j \in 1..Len(refs) : refs[i] = refs[j] => i = j}

\* A state of the delegate: entityReferences() and whether
\* updateRequestCallback() is a callback (TRUE) or None.
UiStates == [refs : RefLists, cb : BOOLEAN]

\* The states with nothing selected and a callback.
EmptyUiStates == {state \in UiStates : Len(state.refs) = 0 /\ state.cb}

(***************************************************************************)
(* OpenKatanaAssetIOControlWidget.                                         *)
(***************************************************************************)
NoControl ==
    [exists |-> FALSE, entity_str |-> "", request |-> <<>>, cb |-> FALSE]

\* __init__ and buildWidgets, populateUI having returned `state`; request
\* is the list of entity references of self.__ui_request.
BuildControlWidget(state) ==
    [exists |-> TRUE,
     entity_str |-> IF Len(state.refs) > 0 THEN toString(state.refs[1]) ELSE "",
     request |-> <<>>,
     cb |-> state.cb]

GetValue(w) == w.entity_str

\* Mutant: a notification with nothing selected keeps the shown reference.
StateChangedCb_KeepsOnEmpty(w, refs) ==
    LET str == IF Len(refs) > 0 THEN toString(refs[1]) ELSE w.entity_str
    IN  [w |-> [w EXCEPT !.entity_str = str],
         emits |-> IF str # w.entity_str THEN 1 ELSE 0]

\* state_changed_cb of the control widget (lines 637-645): the widget
\* afterwards and the emitValueChanged() calls.
StateChangedCb(w, refs) ==
    LET str == IF Len(refs) > 0 THEN toString(refs[1]) ELSE ""
    IN  [w |-> [w EXCEPT !.entity_str = str],
         emits |-> IF str # w.entity_str THEN 1 ELSE 0]

\* Mutant: the delegate is only told about valid references.
SetValue_SkipsInvalid(w, svc, value, host, k) ==
    IF ~w.cb \/ w.entity_str = value
    THEN [w |-> w, svc |-> svc, queried |-> 0, cbCalls |-> 0, raised |-> ""]
    ELSE LET m == ManagerAndContext(svc, host, k)
             entity_ref == CreateEntityReferenceIfValid(value)
         IN  IF m.raised # ""
             THEN [w |-> w, svc |-> m.svc, queried |-> m.queried,
                   cbCalls |-> 0, raised |-> m.raised]
             ELSE IF m.ret.manager = None
             THEN [w |-> w, svc |-> m.svc, queried |-> m.queried,
                   cbCalls |-> 0, raised |-> "AttributeError"]
             ELSE IF entity_ref # None
             THEN [w |-> [w EXCEPT !.request = <<entity_ref>>], svc |-> m.svc,
                   queried |-> m.queried, cbCalls |-> 1, raised |-> ""]
             ELSE [w |-> w, svc |-> m.svc, queried |-> m.queried,
                   cbCalls |-> 0, raised |-> ""]

\* setValue (lines 664-671): the widget and the service afterwards, the
\* host queries of ui_service.manager(), the calls of the update-request
\* callback and the exception that escapes.
SetValue(w, svc, value, host, k) ==
    IF ~w.cb \/ w.entity_str = value
    THEN [w |-> w, svc |-> svc, queried |-> 0, cbCalls |-> 0, raised |-> ""]
    ELSE LET m == ManagerAndContext(svc, host, k)
             entity_ref == CreateEntityReferenceIfValid(value)
         IN  IF m.raised # ""
             THEN [w |-> w, svc |-> m.svc, queried |-> m.queried,
                   cbCalls |-> 0, raised |-> m.raised]
             ELSE IF m.ret.manager = None
             THEN [w |-> w, svc |-> m.svc, queried |-> m.queried,
                   cbCalls |-> 0, raised |-> "AttributeError"]
             ELSE IF entity_ref # None
             THEN [w |-> [w EXCEPT !.request = <<entity_ref>>], svc |-> m.svc,
                   queried |-> m.queried, cbCalls |-> 1, raised |-> ""]
             ELSE [w |-> w, svc |-> m.svc, queried |-> m.queried,
                   cbCalls |-> 1, raised |-> ""]

\* The delegate reports a state to the live control widget.
control_state_changed(refs) ==
    LET r == StateChangedCb(control, refs)
    IN  /\ control.exists
        /\ control' = r.w
        /\ clast' = [op |-> "notify", before |-> control, value |-> "",
                     refs |-> refs, emits |-> r.emits, cbCalls |-> 0,
                     raised |-> "", cached |-> FALSE]
        /\ UNCHANGED <<patchVars, widgetVars, serviceVars, frameVars>>

\* The host sets the value of the live control widget; clast.refs goes on
\* naming the state the delegate reported last, clast.cached tells whether
\* the service held a manager and a context when the call began.
setValue(value, host) ==
    LET r == SetValue(control, service, value, host, queries + 1)
    IN  /\ control.exists
        /\ queries + r.queried <= MaxQueries
        /\ control' = r.w
        /\ service' = r.svc
        /\ queries' = queries + r.queried
        /\ clast' = [op |-> "setValue", before |-> control, value |-> value,
                     refs |-> clast.refs, emits |-> 0, cbCalls |-> r.cbCalls,
                     raised |-> r.raised,
                     cached |-> service.manager # None /\ service.context # None]
        /\ UNCHANGED <<discoveries, slast, patchVars, widgetVars, frameVars>>

(***************************************************************************)
(* OpenKatanaAssetIOBrowserFrame.                                          *)
(***************************************************************************)
\* self.__result is None
NoResult == "<None>"

NoFrame == [exists |-> FALSE, result |-> NoResult]

\* OpenKatanaAssetIOBrowserFrame.__init__
NewBrowserFrame == [exists |-> TRUE, result |-> NoResult]

SelectionValid(f) == f.result # NoResult

\* Mutant: the signal carries the validity of the result being replaced.
SetResult_EmitsStale(f, entity_reference_str) ==
    [f |-> [f EXCEPT !.result = entity_reference_str], emits |-> 1,
     valid |-> SelectionValid(f)]

\* setResult: the frame afterwards, the selectionValidSignal emissions and
\* the value they carry.
SetResult(f, entity_reference_str) ==
    LET g == [f EXCEPT !.result = entity_reference_str]
    IN  [f |-> g, emits |-> 1, valid |-> SelectionValid(g)]

\* state_changed_cb of configureAssetBrowser (lines 385-390).
FrameStateChangedCb(f, refs) ==
    SetResult(f, IF Len(refs) > 0 THEN toString(refs[1]) ELSE NoResult)

\* Lines 380 and 405-407: the container after populateUI returned `state`.
PopulatedBrowserFrame(state) ==
    IF Len(state.refs) > 0
    THEN SetResult(NewBrowserFrame, toString(state.refs[1]))
    ELSE [f |-> NewBrowserFrame, emits |-> 0, valid |-> FALSE]

\* The delegate reports a state to the live browser container.
frame_state_changed(refs) ==
    LET r == FrameStateChangedCb(frame, refs)
    IN  /\ frame.exists
        /\ frame' = r.f
        /\ flast' = [op |-> "notify", before |-> frame, refs |-> refs,
                     emits |-> r.emits, valid |-> r.valid]
        /\ UNCHANGED <<patchVars, widgetVars, serviceVars, controlVars>>

(***************************************************************************)
(* OpenKatanaAssetIOWidgetDelegate.                                        *)
(***************************************************************************)
\* What uiPolicy() and populateUI() of the external delegate can do.
PolicyOutcomes == {"managed", "unmanaged", "raise"}

PopulateOutcomes == {"state", "None", "raise"}

\* Mutant: the policy response is not looked at.
PolicyManaged_Always(policy) == TRUE

\* ManagedTrait.isImbuedTo(ui_policy)
PolicyManaged(policy) == policy = "managed"

\* The outcome of a method body: the service afterwards, what it returned
\* or raised, and the calls it made on the way (d is the ui_delegate()
\* call at its start).
Body(svc, d, disc, queried, policy, populate, textTabs, delegateTabs, ret, err, path) ==
    [svc |-> svc, attempts |-> d.attempts, dlog |-> d.log,
     disc |-> IF d.attempts = 1 THEN disc ELSE "-",
     queried |-> queried,
     policy |-> policy, uiPolicy |-> IF policy = "-" THEN 0 ELSE 1,
     populate |-> populate, populateUI |-> IF populate = "-" THEN 0 ELSE 1,
     textTabs |-> textTabs, delegateTabs |-> delegateTabs,
     ret |-> ret, err |-> err, path |-> path]

\* createAssetControlWidget, with the buildWidgets of the control widget
\* it constructs.
ControlWidgetBody(svc, disc, host, policy, populate, e, k) ==
    LET d == UiDelegate(svc, disc)
    IN  IF d.ret = "None"
        THEN Body(d.svc, d, disc, 0, "-", "-", 0, 0,
                  "DefaultControlWidget", "", "fallback")
        ELSE
        LET c1 == ManagerAndContext(d.svc, host, k)
        IN  IF c1.raised # ""
            THEN Body(c1.svc, d, disc, c1.queried, "-", "-", 0, 0,
                      "raise", c1.raised, "raise")
            ELSE IF policy = "raise"
            THEN Body(c1.svc, d, disc, c1.queried, policy, "-", 0, 0,
                      "raise", e, "raise")
            ELSE IF ~PolicyManaged(policy)
            THEN Body(c1.svc, d, disc, c1.queried, policy, "-", 0, 0,
                      "DefaultControlWidget", "", "fallback")
            ELSE
            LET c2 == ManagerAndContext(c1.svc, host, k)
                q == c1.queried + c2.queried
            IN  CASE populate = "raise" ->
                       Body(c2.svc, d, disc, q, policy, populate, 0, 0,
                            "raise", e, "raise")
                  [] populate = "None" ->
                       Body(c2.svc, d, disc, q, policy, populate, 0, 0,
                            "raise", "AttributeError", "raise")
                  [] OTHER ->
                       Body(c2.svc, d, disc, q, policy, populate, 0, 0,
                            "ControlWidget", "", "delegated")

\* configureAssetBrowser.
BrowserBody(svc, disc, host, policy, populate, hasValue, e, k) ==
    LET d == UiDelegate(svc, disc)
    IN  IF d.ret = "None"
        THEN Body(d.svc, d, disc, 0, "-", "-", 1, 0, "None", "", "fallback")
        ELSE
        LET c1 == ManagerAndContext(d.svc, host, k)
        IN  IF c1.raised # ""
            THEN Body(c1.svc, d, disc, c1.queried, "-", "-", 0, 0,
                      "raise", c1.raised, "raise")
            ELSE IF policy = "raise"
            THEN Body(c1.svc, d, disc, c1.queried, policy, "-", 0, 0,
                      "raise", e, "raise")
            ELSE IF ~PolicyManaged(policy)
            THEN Body(c1.svc, d, disc, c1.queried, policy, "-", 0, 0,
                      "None", "", "return")
            ELSE
            LET m == IF hasValue
                     THEN ManagerAndContext(c1.svc, host, k)
                     ELSE [c1 EXCEPT !.queried = 0]
            IN  IF hasValue /\ m.ret.manager = None
                THEN Body(m.svc, d, disc, c1.queried + m.queried, policy, "-",
                          0, 0, "raise", "AttributeError", "raise")
                ELSE
                LET c2 == ManagerAndContext(m.svc, host, k)
                    q == c1.queried + m.queried + c2.queried
                IN  CASE populate = "raise" ->
                           Body(c2.svc, d, disc, q, policy, populate, 0, 0,
                                "raise", e, "raise")
                      [] populate = "None" ->
                           Body(c2.svc, d, disc, q, policy, populate, 0, 0,
                                "None", "", "return")
                      [] OTHER ->
                           Body(c2.svc, d, disc, q, policy, populate, 0, 1,
                                "None", "", "delegated")

\* Mutant: the exception is logged and swallowed.
ExceptionLoggerDecorator_Swallows(body) ==
    [ret |-> IF body.ret = "raise" THEN "None" ELSE body.ret,
     err |-> "",
     logged |-> IF body.ret = "raise" THEN 1 ELSE 0]

\* exception_logger_decorator: what the caller gets and how often the
\* decorator logs.
ExceptionLoggerDecorator(body) ==
    [ret |-> body.ret, err |-> body.err,
     logged |-> IF body.ret = "raise" THEN 1 ELSE 0]

SCall(op, body, out, pair) ==
    [op |-> op, before |-> service, body |-> body,
     ret |-> out.ret, err |-> out.err, logged |-> out.logged, pair |-> pair,
     host |-> "-"]

\* A body that touches neither the delegate nor the host.
PlainBody(ret, err) ==
    [svc |-> service, attempts |-> 0, dlog |-> "none", disc |-> "-",
     queried |-> 0, policy |-> "-", uiPolicy |-> 0, populate |-> "-",
     populateUI |-> 0, textTabs |-> 0, delegateTabs |-> 0,
     ret |-> ret, err |-> err, path |-> "-"]

Undecorated(body) == [ret |-> body.ret, err |-> body.err, logged |-> 0]

\* OpenKatanaAssetIOWidgetDelegate.__init__
NewWidgetDelegate ==
    /\ service' = ResetManager(service)
    /\ slast' = [SCall("init", PlainBody("None", ""),
                        Undecorated(PlainBody("None", "")), NoPair)
                   EXCEPT !.body.svc = ResetManager(service)]
    /\ UNCHANGED <<discoveries, queries, patchVars, widgetVars, delegatedVars>>

\* A call of ui_service.ui_delegate()
ui_delegate(disc) ==
    LET d == UiDelegate(service, disc)
        body == Body(d.svc, d, disc, 0, "-", "-", 0, 0, d.ret, "", "-")
    IN  /\ service' = d.svc
        /\ discoveries' = discoveries + d.attempts
        /\ slast' = SCall("ui_delegate", body, Undecorated(body), NoPair)
        /\ UNCHANGED <<queries, patchVars, widgetVars, delegatedVars>>

\* A call of ui_service.manager_and_context()
manager_and_context(host) ==
    LET c == ManagerAndContext(service, host, queries + 1)
        d == [attempts |-> 0, log |-> "none"]
        body == Body(c.svc, d, "-", c.queried, "-", "-", 0, 0,
                     IF c.raised # "" THEN "raise" ELSE "pair", c.raised, "-")
    IN  /\ queries + c.queried <= MaxQueries
        /\ service' = c.svc
        /\ queries' = queries + c.queried
        /\ slast' = [SCall("manager_and_context", body, Undecorated(body), c.ret)
                        EXCEPT !.host = IF c.queried = 1 THEN host ELSE "-"]
        /\ UNCHANGED <<discoveries, patchVars, widgetVars, delegatedVars>>

\* `state` is what populateUI returns when it returns a state.
createAssetControlWidget(disc, host, policy, populate, e, state) ==
    LET body == ControlWidgetBody(service, disc, host, policy, populate, e,
                                  queries + 1)
        built == body.path = "delegated"
    IN  /\ queries + body.queried <= MaxQueries
        /\ service' = body.svc
        /\ discoveries' = discoveries + body.attempts
        /\ queries' = queries + body.queried
        /\ slast' = SCall("control", body, ExceptionLoggerDecorator(body), NoPair)
        /\ control' = IF built THEN BuildControlWidget(state) ELSE control
        /\ clast' = IF built
                     THEN [op |-> "build", before |-> control, value |-> "",
                           refs |-> state.refs, emits |-> 0, cbCalls |-> 0,
                           raised |-> "", cached |-> FALSE]
                     ELSE clast
        /\ UNCHANGED <<patchVars, widgetVars, frameVars>>

\* `state` is what populateUI returns when it returns a state.
configureAssetBrowser(disc, host, policy, populate, hasValue, e, state) ==
    LET body == BrowserBody(service, disc, host, policy, populate, hasValue, e,
                            queries + 1)
        built == body.path = "delegated"
        c == PopulatedBrowserFrame(state)
    IN  /\ queries + body.queried <= MaxQueries
        /\ service' = body.svc
        /\ discoveries' = discoveries + body.attempts
        /\ queries' = queries + body.queried
        /\ slast' = SCall("browser", body, ExceptionLoggerDecorator(body), NoPair)
        /\ frame' = IF built THEN c.f ELSE frame
        /\ flast' = IF built
                     THEN [op |-> "configure", before |-> frame,
                           refs |-> state.refs, emits |-> c.emits,
                           valid |-> c.valid]
                     ELSE flast
        /\ UNCHANGED <<patchVars, widgetVars, controlVars>>

\* createAssetRenderWidget: a widget for the output is built, unless the
\* construction fails.
createAssetRenderWidget(name, fails, e) ==
    LET body == IF fails THEN PlainBody("raise", e)
                         ELSE PlainBody("RenderWidget", "")
    IN  /\ widget' = IF fails THEN widget ELSE NewWidget(name)
        /\ wlast' = IF fails THEN wlast
                     ELSE [WCall("build", 0, NewWidget(name),
                                 UpdateWidgets(NewWidget(name), preflight_param).lookups,
                                 UpdateWidgets(NewWidget(name), preflight_param).sets)
                           EXCEPT !.name = name, !.known = "None",
                                  !.parent = FALSE, !.hidden = TRUE,
                                  !.before = None]
        /\ slast' = SCall("render", body, ExceptionLoggerDecorator(body), NoPair)
        /\ UNCHANGED <<service, discoveries, queries, patchVars, delegatedVars>>

(***************************************************************************)
(* RenderNodeInfo.                                                         *)
(***************************************************************************)
\* The output list a RenderNodeInfo holds after construction for the set S
\* of outputs the node has at that moment: (name, attrs) in index order,
\* attrs["locationSettings"] being the upstream settings.
RECURSIVE BuildOutputList(_, _)
BuildOutputList(i, S) ==
    IF i > Len(NodeOutputs) THEN <<>>
    ELSE LET rest == BuildOutputList(i + 1, S)
             n == NodeOutputs[i]
         IN  IF n \in S
             THEN <<[name |-> n,
                     locationSettings |-> UpstreamLocationSettings(n)]>> \o rest
             ELSE rest

\* __find_attrs_in_output_list: position of the first entry called `name`
\* (0 stands for the None the code returns).
RECURSIVE FindFrom(_, _, _)
FindFrom(list, name, i) ==
    IF i > Len(list) THEN 0
    ELSE IF list[i].name = name THEN i
    ELSE FindFrom(list, name, i + 1)

\* Mutant: an unknown name falls back to the first output.
FindAttrsInOutputList_FallsBack(list, name) ==
    IF FindFrom(list, name, 1) = 0 /\ Len(list) > 0
    THEN 1
    ELSE FindFrom(list, name, 1)

FindAttrsInOutputList(list, name) == FindFrom(list, name, 1)

\* The host's original getOutputInfoByIndex: reads the attrs of the entry.
OriginalGetOutputInfoByIndex(list, index) ==
    OutputInfo(list[index].name, None, list[index].locationSettings)

\* The host's original getOutputInfoByName: KeyError for an unknown name.
OriginalGetOutputInfoByName(list, name) ==
    IF \E i \in 1..Len(list) : list[i].name = name
    THEN LET i == CHOOSE j \in 1..Len(list) :
                    /\ list[j].name = name
                    /\ \A k \in 1..(j - 1) : list[k].name # name
         IN  OutputInfo(name, None, list[i].locationSettings)
    ELSE Raised("KeyError")

\* Mutant: the builder is not seeded with the original settings.
PatchedLocationSettings_NotSeeded(original_location_settings, preflight_asset_id) ==
    [k \in (DOMAIN original_location_settings) \cup {"renderLocation"} |->
        IF k = "renderLocation" THEN preflight_asset_id ELSE None]

\* Lines 180-183: GroupBuilder.update(original) then set("renderLocation").
PatchedLocationSettings(original_location_settings, preflight_asset_id) ==
    [k \in (DOMAIN original_location_settings) \cup {"renderLocation"} |->
        IF k = "renderLocation" THEN preflight_asset_id
                                ELSE original_location_settings[k]]

\* __get_output_info_using_preflight_asset_id: the output list as the
\* helper leaves it before it calls get_output_info().
PatchedOutputList(list, index, name, pp) ==
    LET preflight_asset_id_param == GetPreflightChild(pp, name)
    IN  IF preflight_asset_id_param = None
        THEN list
        ELSE [list EXCEPT ![index].locationSettings =
                  PatchedLocationSettings(@, preflight_asset_id_param)]

NewRenderNodeInfo(S) ==
    /\ outputList' = BuildOutputList(1, S)
    /\ last' = Call("new", NoName, 0, NoArgs, NoArgs, 0,
                    NoneResult, NoneResult, 0)
    /\ UNCHANGED <<preflight_param, invoked, armed, nchildren>>

\* Mutant: a resolution uses the preflight entry up.
ResolveParams_ConsumesEntry(pp, name) ==
    IF GetPreflightChild(pp, name) # None
    THEN [pp EXCEPT !.child[name] = None]
    ELSE pp

\* What a resolution does to the parameters of the node: getParameter and
\* getValue only (lines 166, 173).
ResolveParams(pp, name) == pp

getOutputInfoByIndex(index) ==
    /\ index \in 1..Len(outputList)
    /\ LET patched == PatchedOutputList(outputList, index,
                                        outputList[index].name, preflight_param)
       IN  /\ outputList' = patched
           /\ last' = Call("byIndex", outputList[index].name, index,
                           NoArgs, NoArgs, 1, NoneResult,
                           OriginalGetOutputInfoByIndex(patched, index), 1)
    /\ preflight_param' = ResolveParams(preflight_param, outputList[index].name)
    /\ UNCHANGED <<invoked, armed, nchildren>>

getOutputInfoByName(name) ==
    /\ LET index == FindAttrsInOutputList(outputList, name)
       IN  IF index = 0
           THEN /\ outputList' = outputList
                /\ last' = Call("byName", name, 0, NoArgs, NoArgs, 1,
                                NoneResult,
                                OriginalGetOutputInfoByName(outputList, name),
                                0)
           ELSE LET patched == PatchedOutputList(outputList, index, name,
                                                 preflight_param)
                IN  /\ outputList' = patched
                    /\ last' = Call("byName", name, index, NoArgs, NoArgs, 1,
                                    NoneResult,
                                    OriginalGetOutputInfoByName(patched, name),
                                    1)
    /\ preflight_param' = ResolveParams(preflight_param, name)
    /\ UNCHANGED <<invoked, armed, nchildren>>

(***************************************************************************)
(* The specification.                                                      *)
(***************************************************************************)
Init ==
    /\ preflight_param = NoGroup
    /\ outputList = BuildOutputList(1, Names)
    /\ invoked = [n \in Names |-> "none"]
    /\ armed = [n \in Names |-> None]
    /\ last = [op |-> "init", name |-> NoName, index |-> 0, args |-> NoArgs,
               underArgs |-> NoArgs, calls |-> 0, under |-> NoneResult,
               ret |-> NoneResult, lookups |-> 0, before |-> NoGroup,
               listBefore |-> BuildOutputList(1, Names), parent |-> FALSE,
               resyncs |-> 0]
    /\ nchildren = [n \in Names |-> 0]
    /\ widget = NewWidget(NodeOutputs[1])
    /\ wlast = [op |-> "build", name |-> NodeOutputs[1], known |-> "None",
                parent |-> FALSE, hidden |-> TRUE, resyncs |-> 0,
                self |-> NewWidget(NodeOutputs[1]), lookups |-> 0, sets |-> 1,
                before |-> None]
    /\ service = NewService
    /\ discoveries = 0
    /\ queries = 0
    /\ slast = [op |-> "new", before |-> NewService,
                body |-> [svc |-> NewService, attempts |-> 0, dlog |-> "none",
                          disc |-> "-", queried |-> 0, policy |-> "-",
                          uiPolicy |-> 0, populate |-> "-", populateUI |-> 0,
                          textTabs |-> 0, delegateTabs |-> 0, ret |-> "None",
                          err |-> "", path |-> "-"],
                ret |-> "None", err |-> "", logged |-> 0, pair |-> NoPair,
                host |-> "-"]
    /\ control = NoControl
    /\ clast = [op |-> "none", before |-> NoControl, value |-> "",
                refs |-> <<>>, emits |-> 0, cbCalls |-> 0, raised |-> "",
                cached |-> FALSE]
    /\ frame = NoFrame
    /\ flast = [op |-> "none", before |-> NoFrame, refs |-> <<>>, emits |-> 0,
                valid |-> FALSE]

PrePublish ==
    /\ \E idx \in 1..Len(NodeOutputs), versionup \in BOOLEAN, assetTxn \in Txns :
          PreCreateProductAndLocation(idx, versionup, assetTxn)
    /\ UNCHANGED <<widgetVars, serviceVars, delegatedVars>>

PostPublish ==
    /\ \E idx \in 1..Len(NodeOutputs), versionup \in BOOLEAN, assetTxn \in Txns :
          PostCreateProductAndLocation(idx, versionup, assetTxn)
    /\ UNCHANGED <<widgetVars, serviceVars, delegatedVars>>

Reset ==
    /\ \E output_name \in Names \cup {NoName}, parentAvailable \in BOOLEAN :
          OnResetButtonClicked(output_name, parentAvailable)
    /\ UNCHANGED <<widgetVars, serviceVars, delegatedVars>>

Construct ==
    /\ \E S \in SUBSET Names : NewRenderNodeInfo(S)
    /\ UNCHANGED <<widgetVars, serviceVars, delegatedVars>>

ResolveByIndex ==
    /\ \E index \in 1..Len(NodeOutputs) : getOutputInfoByIndex(index)
    /\ UNCHANGED <<widgetVars, serviceVars, delegatedVars>>

ResolveByName ==
    /\ \E name \in Names : getOutputInfoByName(name)
    /\ UNCHANGED <<widgetVars, serviceVars, delegatedVars>>

Next ==
    \/ PrePublish
    \/ PostPublish
    \/ Reset
    \/ Construct
    \/ ResolveByIndex
    \/ ResolveByName

Spec == Init /\ [][Next]_vars

\* The render output widget, its editor and the publish menu entries.
BuildRenderWidget ==
    \E name \in Names \cup {NoName}, fails \in BOOLEAN, e \in DelegateErrors :
        createAssetRenderWidget(name, fails, e)

PrePublishSeen == \E n \in Names, r \in Refs : PublishStarted(n, r)

PostPublishSeen == \E n \in Names : PublishFinished(n)

WidgetNext ==
    \/ BuildRenderWidget
    \/ HostAttachesWidget
    \/ updateWidgets
    \/ on_reset_button_clicked
    \/ PrePublishSeen
    \/ PostPublishSeen

WidgetSpec == Init /\ [][WidgetNext]_vars

\* The widget delegate and the shared service.
CallUiDelegate == \E disc \in DiscoveryOutcomes : ui_delegate(disc)

CallManagerAndContext == \E host \in HostOutcomes : manager_and_context(host)

\* The outcomes a method can meet in the current state: an outcome the
\* method does not get to ask for is drawn from a single value.
DiscoveryInputs ==
    IF service.ui_delegate = "NotImplemented" THEN DiscoveryOutcomes
                                              ELSE {"delegate"}

HasDelegate(disc) == UiDelegate(service, disc).ret # "None"

HostInputs(disc) ==
    IF HasDelegate(disc) /\ (service.manager = None \/ service.context = None)
    THEN HostOutcomes
    ELSE {"ok"}

PolicyInputs(disc) ==
    IF HasDelegate(disc) THEN PolicyOutcomes ELSE {"managed"}

PopulateInputs(disc, policy) ==
    IF HasDelegate(disc) /\ policy = "managed" THEN PopulateOutcomes
                                                ELSE {"state"}

ValueInputs(disc, policy) ==
    IF HasDelegate(disc) /\ policy = "managed" THEN BOOLEAN ELSE {FALSE}

ErrorInputs(policy, populate) ==
    IF policy = "raise" \/ populate = "raise" THEN DelegateErrors
                                              ELSE {"RuntimeError"}

CreateControlWidget ==
    \E disc \in DiscoveryInputs :
        \E host \in HostInputs(disc), policy \in PolicyInputs(disc) :
            \E populate \in PopulateInputs(disc, policy) :
                \E e \in ErrorInputs(policy, populate),
                   state \in EmptyUiStates :
                    createAssetControlWidget(disc, host, policy, populate, e,
                                             state)

ConfigureBrowser ==
    \E disc \in DiscoveryInputs :
        \E host \in HostInputs(disc), policy \in PolicyInputs(disc) :
            \E populate \in PopulateInputs(disc, policy),
               hasValue \in ValueInputs(disc, policy) :
                \E e \in ErrorInputs(policy, populate),
                   state \in EmptyUiStates :
                    configureAssetBrowser(disc, host, policy, populate,
                                          hasValue, e, state)

ServiceNext ==
    \/ NewWidgetDelegate
    \/ CallUiDelegate
    \/ CallManagerAndContext
    \/ CreateControlWidget
    \/ ConfigureBrowser
    \/ BuildRenderWidget

ServiceSpec == Init /\ [][ServiceNext]_vars

\* The delegated control widget: built by a widget delegate whose UI
\* delegate manages the inline widget, then driven by the delegate
\* (notifications) and by the host (setValue).
CreateDelegatedControlWidget ==
    \E host \in HostInputs("delegate"), state \in UiStates :
        createAssetControlWidget("delegate", host, "managed", "state",
                                 "RuntimeError", state)

ControlStateChanged == \E refs \in RefLists : control_state_changed(refs)

ControlSetValue ==
    \E value \in ValueStrings, host \in HostInputs("delegate") :
        setValue(value, host)

ControlNext ==
    \/ NewWidgetDelegate
    \/ CreateDelegatedControlWidget
    \/ ControlStateChanged
    \/ ControlSetValue

ControlSpec == Init /\ [][ControlNext]_vars

\* The delegated browser container.
ConfigureDelegatedBrowser ==
    \E host \in HostInputs("delegate"), populate \in {"state", "None"},
       hasValue \in BOOLEAN, state \in UiStates :
        configureAssetBrowser("delegate", host, "managed", populate, hasValue,
                              "RuntimeError", state)

BrowserStateChanged == \E refs \in RefLists : frame_state_changed(refs)

BrowserNext ==
    \/ ConfigureDelegatedBrowser
    \/ BrowserStateChanged

BrowserSpec == Init /\ [][BrowserNext]_vars

TypeOK ==
    /\ preflight_param.exists \in BOOLEAN
    /\ \A n \in Names : preflight_param.child[n] \in Refs \cup {None}
    /\ ~preflight_param.exists => \A n \in Names : preflight_param.child[n] = None

(***************************************************************************)
(* Properties.                                                             *)
(***************************************************************************)
IsPublish == last.op \in {"pre", "post"}

\* A resolution that found its output in the info object's output list.
IsResolution == last.op \in {"byIndex", "byName"} /\ last.index # 0

\* C1 (as stated): a preflight entry for output N exists if and only if
\* pre-render publish has been invoked for N and neither post-render publish
\* nor a reset has been invoked for N since.
C1_EntryIffPreInvokedLast ==
    \A n \in Names : Preflighted(n) <=> invoked[n] = "pre"

\* C1 (amended): a preflight entry for output N exists if and only if a
\* pre-render publish for N has yielded an output identifier and, since
\* then, no post-render publish for N has yielded an output identifier and
\* no reset for N has run with the parent editor available.
C1_EntryIffArmed ==
    \A n \in Names : Preflighted(n) <=> armed[n] # None

C1_Witness ==
    /\ last.op \in {"post", "reset"}
    /\ last.name \in Names
    /\ GetPreflightChild(last.before, last.name) # None
    /\ ~Preflighted(last.name)
    /\ \E m \in Names : Preflighted(m)

\* C2: when the publish-start call of the pre-publish hook yields the
\* output identifier (N, R), the preflight entry for N read immediately
\* afterwards is R, whatever the preflight state was before.
C2_PreThenLookup ==
    (last.op = "pre" /\ last.under.kind = "info")
        => GetPreflightChild(preflight_param, last.under.outputName)
               = last.under.assetId

C2_Witness ==
    /\ last.op = "pre"
    /\ last.under.kind = "info"
    /\ GetPreflightChild(last.before, last.under.outputName) # None
    /\ GetPreflightChild(last.before, last.under.outputName)
           # last.under.assetId

\* C3: post-publish for an output N that has a preflight entry, when
\* publish-finish yields an output identifier, removes the entry for N and
\* leaves the entry of every other output as it was.
C3_PostRemovesExactlyN ==
    (/\ last.op = "post"
     /\ last.under.kind = "info"
     /\ GetPreflightChild(last.before, last.under.outputName) # None)
        => /\ ~Preflighted(last.under.outputName)
           /\ \A m \in Names \ {last.under.outputName} :
                 GetPreflightChild(preflight_param, m)
                     = GetPreflightChild(last.before, m)

C3_Witness ==
    /\ last.op = "post"
    /\ last.under.kind = "info"
    /\ GetPreflightChild(last.before, last.under.outputName) # None
    /\ \E m \in Names \ {last.under.outputName} : Preflighted(m)

\* C4: resolving (by index or by name) an output that has a preflight
\* entry runs the original resolution with the render location of that
\* output replaced by the stored working reference; the other location
\* settings of that output and the settings of every other output are
\* unchanged.
C4_ResolveSubstitutes ==
    (IsResolution /\ Preflighted(last.name))
        => LET i == last.index
               was == last.listBefore[i].locationSettings
               used == last.ret.locationSettings
           IN  /\ last.ret.kind = "info"
               /\ last.ret.outputName = last.name
               /\ DOMAIN used = DOMAIN was
               /\ used["renderLocation"]
                      = GetPreflightChild(preflight_param, last.name)
               /\ \A k \in DOMAIN was \ {"renderLocation"} : used[k] = was[k]
               /\ outputList[i].locationSettings = used
               /\ Len(outputList) = Len(last.listBefore)
               /\ \A j \in 1..Len(outputList) :
                     j # i => outputList[j] = last.listBefore[j]

C4_Witness ==
    /\ IsResolution
    /\ Preflighted(last.name)
    /\ Len(outputList) > 1
    /\ last.listBefore[last.index].locationSettings
           = UpstreamLocationSettings(last.name)

\* C5: resolving (by index or by name) an output that has no preflight
\* entry at that moment gives the result of the undecorated resolution on
\* the upstream location settings.
C5_ResolveWithoutEntryIsOriginal ==
    (IsResolution /\ ~Preflighted(last.name))
        => last.ret = OutputInfo(last.name, None,
                                 UpstreamLocationSettings(last.name))

\* C6: after a pre-publish for N has returned the working reference R every
\* resolution for N uses R as render location until post-publish or reset
\* for N; every resolution after that uses the upstream render location.
C6_Lifecycle ==
    IsResolution
        => last.ret.locationSettings["renderLocation"]
               = IF armed[last.name] # None
                 THEN armed[last.name]
                 ELSE UpstreamLocationSettings(last.name)["renderLocation"]

\* C7: resolving by a name that is not in the output list propagates the
\* not-found error of the original resolution, looks up no preflight
\* parameter and modifies no location settings.
C7_UnknownNamePropagates ==
    (/\ last.op = "byName"
     /\ ~\E i \in 1..Len(last.listBefore) :
            last.listBefore[i].name = last.name)
        => /\ last.ret = Raised("KeyError")
           /\ last.lookups = 0
           /\ outputList = last.listBefore

C7_Witness ==
    /\ last.op = "byName"
    /\ ~\E i \in 1..Len(last.listBefore) : last.listBefore[i].name = last.name
    /\ Len(last.listBefore) > 0
    /\ Preflighted(last.name)
    /\ Preflighted(last.listBefore[1].name)

\* C8: when the underlying publish-start or publish-finish fails, the
\* wrapper fails with the same failure and the preflight parameters are as
\* they were before the call.
C8_FailurePropagates ==
    (IsPublish /\ last.under.kind = "raise")
        => /\ last.ret = last.under
           /\ preflight_param = last.before

C8_Witness ==
    /\ IsPublish
    /\ last.under.kind = "raise"
    /\ Preflighted(last.name)

\* C9: the wrappers call the underlying operation once, with the node
\* index, version-up flag and transaction they were given, and return the
\* value it returned (None when the output is not asset-identified).
C9_WrapperTransparent ==
    IsPublish
        => /\ last.calls = 1
           /\ last.underArgs = last.args
           /\ last.ret = last.under

C9_Witness ==
    /\ last.op = "post"
    /\ last.under.kind = "info"
    /\ last.args.assetTxn = "txn"
    /\ last.args.versionup
    /\ GetPreflightChild(last.before, last.name) # None

\* C11: the preflight group holds at most one entry per output name, the
\* entry for N holds the working reference of the most recent successful
\* pre-publish for N, and a pre-publish for N leaves the entry of every
\* other output as it was.
C11_OneEntryLatestRef ==
    /\ \A n \in Names :
          /\ nchildren[n] <= 1
          /\ nchildren[n] = 1 <=> Preflighted(n)
          /\ armed[n] # None
                => GetPreflightChild(preflight_param, n) = armed[n]
    /\ last.op = "pre"
          => \A m \in Names \ {last.name} :
                GetPreflightChild(preflight_param, m)
                    = GetPreflightChild(last.before, m)

C11_Witness ==
    /\ last.op = "pre"
    /\ last.under.kind = "info"
    /\ GetPreflightChild(last.before, last.name) \notin {None, last.under.assetId}
    /\ nchildren[last.name] = 1
    /\ \E m \in Names \ {last.name} : Preflighted(m)

\* C10: when the underlying operation yields no output identifier the
\* wrapper leaves the parameter tree unchanged: pre-publish creates neither
\* the preflight group nor an entry, post-publish deletes no entry.
C10_NoneLeavesTree ==
    (IsPublish /\ last.under.kind = "None")
        => preflight_param = last.before

C10_Witness ==
    /\ last.op = "pre"
    /\ last.under.kind = "None"
    /\ last.before = NoGroup

\* C12: for a widget whose last-known state is initialised, an update
\* check that observes a change of the preflight entry's presence (idle to
\* preflighted or back) requests one resynchronization, after which the
\* widget is rebuilt; a check that observes no change requests none.
C12_OneResyncPerTransition ==
    (wlast.op = "update" /\ wlast.parent /\ wlast.known # "None")
        => /\ wlast.resyncs =
                 IF BoolStr(wlast.before # None) # wlast.known THEN 1 ELSE 0
           /\ wlast.resyncs = 1 => widget.known = "None"
           /\ wlast.resyncs = 0 => widget.known = wlast.known

C12_Witness ==
    /\ wlast.op = "update"
    /\ wlast.parent
    /\ wlast.known = "True"
    /\ wlast.before = None
    /\ wlast.resyncs = 1

\* C13: the reset action on a widget whose output is preflighted removes
\* the preflight entry of that output and requests one resynchronization;
\* the rebuilt widget requests no further one.
C13_ResetResyncsOnce ==
    (wlast.op = "reset" /\ wlast.before # None)
        => /\ ~Preflighted(wlast.name)
           /\ wlast.resyncs = 1
           /\ widget = NewWidget(wlast.name)

C13_Witness ==
    /\ wlast.op = "reset"
    /\ wlast.before # None
    /\ wlast.known = "True"
    /\ \E m \in Names \ {wlast.name} : Preflighted(m)

\* C14 (as stated): in every state of a render output widget, from
\* construction onwards, the reset control is shown if the output of the
\* widget has a preflight entry and hidden if it has none.
C14_ResetShownIffPreflighted ==
    widget.hidden <=> ~Preflighted(widget.name)

\* C14 (amended): right after an update of the widget that ran with the
\* parent editor available and requested no resynchronization the reset
\* control is shown if the output has a preflight entry and hidden if it
\* has none; as long as the last-known state is uninitialised (from
\* construction to the first such update) the control is hidden.
C14_ResetShownAfterUpdate ==
    /\ (wlast.op = "update" /\ wlast.parent /\ wlast.resyncs = 0)
          => (widget.hidden <=> ~Preflighted(widget.name))
    /\ widget.known = "None" => widget.hidden

C14_Witness ==
    /\ wlast.op = "update"
    /\ wlast.parent
    /\ wlast.resyncs = 0
    /\ wlast.known = "None"
    /\ Preflighted(widget.name)
    /\ ~widget.hidden

IsDelegated == slast.op \in {"control", "browser"}

C16_BrowserFallsBackToTextBox ==
    (/\ slast.op = "browser"
     /\ \/ service.ui_delegate = "None"
        \/ slast.body.policy = "unmanaged")
        => slast.body.textTabs = 1

\* C17: constructing a widget delegate forgets the cached manager/context
\* pair and keeps the UI-delegate handle; an access with nothing cached
\* asks the host; an access with a cached pair returns that pair without
\* asking the host.
C17_ConstructionResetsPair ==
    /\ slast.op = "init"
          => /\ service.manager = None
             /\ service.context = None
             /\ service.ui_delegate = slast.before.ui_delegate
    /\ slast.op = "manager_and_context"
          => IF slast.before.manager # None /\ slast.before.context # None
             THEN /\ slast.body.queried = 0
                  /\ slast.pair = [manager |-> slast.before.manager,
                                   context |-> slast.before.context]
                  /\ service = slast.before
             ELSE slast.body.queried = 1

C17_Witness ==
    /\ slast.op = "init"
    /\ slast.before.manager # None
    /\ slast.before.context # None
    /\ slast.before.ui_delegate = "delegate"

\* C18: the discovery of the UI delegate is attempted once per service, on
\* the first ui_delegate() call, whatever its outcome; later calls return
\* the same outcome without another attempt, also across reset_manager().
C18_DiscoveryOnce ==
    /\ discoveries <= 1
    /\ service.ui_delegate = "NotImplemented" <=> discoveries = 0
    /\ slast.before.ui_delegate # "NotImplemented"
          => /\ slast.body.attempts = 0
             /\ service.ui_delegate = slast.before.ui_delegate
             /\ slast.op = "ui_delegate" => slast.ret = slast.before.ui_delegate

C18_Witness ==
    /\ slast.op = "ui_delegate"
    /\ slast.before.ui_delegate = "None"
    /\ slast.before.manager = None
    /\ queries > 0
    /\ slast.ret = "None"

\* C19: a failed discovery of the UI delegate raises nothing: an invalid
\* configuration is logged at debug level, any other failure at error
\* level, and ui_delegate() gives None so that callers fall back.
C19_DiscoveryFailureIsNone ==
    (slast.body.attempts = 1
       /\ slast.body.disc \in {"InputValidationException", "Exception"})
        => /\ slast.body.dlog =
                 IF slast.body.disc = "InputValidationException"
                 THEN "debug" ELSE "error"
           /\ service.ui_delegate = "None"
           /\ slast.ret # "raise"
           /\ slast.op = "ui_delegate" => slast.ret = "None"
           /\ IsDelegated => slast.body.path = "fallback"

C19_Witness ==
    /\ slast.op = "browser"
    /\ slast.body.attempts = 1
    /\ slast.body.disc = "InputValidationException"
    /\ slast.body.textTabs = 1

\* C20: an exception raised inside a decorated widget-delegate method is
\* logged once by the decorator and raised to the caller as it is; without
\* an exception the result is returned as it is and the decorator logs
\* nothing.
C20_DecoratorLogsAndReraises ==
    slast.op \in {"control", "browser", "render"}
        => IF slast.body.ret = "raise"
           THEN /\ slast.ret = "raise"
                /\ slast.err = slast.body.err
                /\ slast.logged = 1
           ELSE /\ slast.ret = slast.body.ret
                /\ slast.logged = 0

C20_Witness ==
    /\ slast.op = "browser"
    /\ slast.body.populateUI = 1
    /\ slast.ret = "raise"
    /\ slast.err = "ValueError"
    /\ slast.logged = 1

\* C21: a render output widget looks up no preflight parameter while its
\* parent editor is unavailable (construction included) and keeps its
\* state uninitialised; the first update with the parent available adopts
\* the observed presence of the entry as the last-known state and requests
\* no resynchronization, whether the entry is present or absent.
C21_LazyInitialisation ==
    /\ (wlast.op \in {"build", "update"} /\ ~wlast.parent)
          => /\ wlast.lookups = 0
             /\ wlast.resyncs = 0
             /\ wlast.self.known = wlast.known
    /\ (wlast.op = "update" /\ wlast.parent /\ wlast.known = "None")
          => /\ wlast.lookups = 1
             /\ wlast.self.known = BoolStr(wlast.before # None)
             /\ wlast.resyncs = 0
             /\ widget = wlast.self

C21_Witness ==
    /\ wlast.op = "update"
    /\ wlast.parent
    /\ wlast.known = "None"
    /\ wlast.before # None
    /\ widget.known = "True"

\* C22: the last-known preflight state of a widget instance, once
\* initialised, is never changed by a call on that instance; an update that
\* observes a mismatch requests a resynchronization and returns before it
\* sets the visibility of the reset control or the displayed text.
C22_NoInPlaceTransition ==
    /\ wlast.known # "None" => wlast.self.known = wlast.known
    /\ (/\ wlast.op = "update"
        /\ wlast.parent
        /\ wlast.known # "None"
        /\ BoolStr(wlast.before # None) # wlast.known)
          => /\ wlast.resyncs = 1
             /\ wlast.sets = 0
             /\ wlast.self.hidden = wlast.hidden

C22_Witness ==
    /\ wlast.op = "update"
    /\ wlast.parent
    /\ wlast.known = "False"
    /\ wlast.before # None
    /\ wlast.resyncs = 1
    /\ wlast.self.hidden

\* C23: the reset action deletes no parameter and requests no
\* resynchronization when the parent editor is unavailable, the node has no
\* preflight group, the output of the widget has no name or that output has
\* no preflight entry; when it deletes, it deletes only the entry of the
\* widget's own output.
C23_ResetNoOpCases ==
    last.op = "reset" =>
        /\ (\/ ~last.parent
            \/ ~last.before.exists
            \/ last.name = NoName
            \/ GetPreflightChild(last.before, last.name) = None)
              => /\ preflight_param = last.before
                 /\ last.resyncs = 0
        /\ preflight_param.exists = last.before.exists
        /\ \A m \in Names \ {last.name} :
              GetPreflightChild(preflight_param, m) = GetPreflightChild(last.before, m)

C23_Witness ==
    /\ last.op = "reset"
    /\ ~last.parent
    /\ GetPreflightChild(last.before, last.name) # None
    /\ preflight_param = last.before
    /\ \A m \in Names : Preflighted(m)

\* C24: a call of getOutputInfoByIndex or getOutputInfoByName, with or
\* without a preflight entry, leaves the preflight parameters of the node
\* as they were, so it does not change which outputs are preflighted.
C24_ResolutionReadsOnly ==
    last.op \in {"byIndex", "byName"} =>
        /\ preflight_param = last.before
        /\ \A n \in Names :
              Preflighted(n) <=> GetPreflightChild(last.before, n) # None

C24_Witness ==
    /\ last.op = "byName"
    /\ last.index # 0
    /\ Preflighted(last.name)
    /\ last.ret.locationSettings["renderLocation"] = GetPreflightChild(last.before, last.name)

\* C25: the value of a live delegated control widget is the string of the
\* first entity reference of the state the delegate reported last (the
\* initial state until a notification arrives), or "" if that state has no
\* entity reference; a notification emits valueChanged once if it changes
\* the value and not at all if it leaves it equal, and nothing else emits.
C25_ValueFollowsNotifications ==
    control.exists =>
        /\ GetValue(control) = IF Len(clast.refs) > 0
                               THEN toString(clast.refs[1]) ELSE ""
        /\ clast.op = "notify"
              => clast.emits = IF GetValue(control) # GetValue(clast.before)
                               THEN 1 ELSE 0
        /\ clast.op # "notify" => clast.emits = 0

C25_Witness ==
    /\ clast.op = "notify"
    /\ Len(clast.refs) = 0
    /\ GetValue(clast.before) \in RefStrings
    /\ GetValue(control) = ""
    /\ clast.emits = 1

\* C26 (as stated): setValue(v) does nothing without an update callback or
\* when v is the current value; otherwise it calls the update-request
\* callback once, the request holding [v] if the manager accepts v and its
\* previous references if not; getValue() is not changed.
C26_SetValueCallsBackOnce ==
    clast.op = "setValue" =>
        /\ GetValue(control) = GetValue(clast.before)
        /\ IF ~clast.before.cb \/ GetValue(clast.before) = clast.value
           THEN /\ clast.cbCalls = 0
                /\ control = clast.before
           ELSE /\ clast.cbCalls = 1
                /\ control.request =
                      IF CreateEntityReferenceIfValid(clast.value) # None
                      THEN <<CreateEntityReferenceIfValid(clast.value)>>
                      ELSE clast.before.request

\* C26 (amended): as above when ui_service.manager() returns a manager,
\* as it does whenever the service has the pair cached; when it raises or
\* returns None, setValue raises, the callback is not called and the
\* request keeps its references.
C26_SetValueCallsBackOnceWithManager ==
    clast.op = "setValue" =>
        /\ GetValue(control) = GetValue(clast.before)
        /\ IF ~clast.before.cb \/ GetValue(clast.before) = clast.value
           THEN /\ clast.cbCalls = 0
                /\ clast.raised = ""
                /\ control = clast.before
           ELSE IF clast.raised = ""
           THEN /\ clast.cbCalls = 1
                /\ control.request =
                      IF CreateEntityReferenceIfValid(clast.value) # None
                      THEN <<CreateEntityReferenceIfValid(clast.value)>>
                      ELSE clast.before.request
           ELSE /\ clast.cbCalls = 0
                /\ control = clast.before
                /\ ~clast.cached

C26_Witness ==
    /\ clast.op = "setValue"
    /\ clast.before.cb
    /\ clast.value = "/tmp/file"
    /\ clast.raised = ""
    /\ ~clast.cached
    /\ clast.cbCalls = 1
    /\ Len(clast.before.request) = 1
    /\ control.request = clast.before.request

\* C27: selectionValid() of the browser container is TRUE iff its result is
\* not None; the result of a new container is None; a notification sets the
\* result to the string of the first entity reference, or to None when
\* there is none; each setResult emits selectionValidSignal once, with the
\* validity of the new result.
C27_ResultFollowsNotifications ==
    /\ NewBrowserFrame.result = NoResult
    /\ frame.exists => (SelectionValid(frame) <=> frame.result # NoResult)
    /\ flast.op = "notify"
          => /\ frame.result = IF Len(flast.refs) > 0
                               THEN toString(flast.refs[1]) ELSE NoResult
             /\ flast.emits = 1
    /\ flast.op = "configure"
          => /\ frame.result = IF Len(flast.refs) > 0
                               THEN toString(flast.refs[1]) ELSE NoResult
             /\ flast.emits = IF Len(flast.refs) > 0 THEN 1 ELSE 0
    /\ flast.emits = 1 => flast.valid = SelectionValid(frame)

C27_Witness ==
    /\ flast.op = "notify"
    /\ Len(flast.refs) = 0
    /\ SelectionValid(flast.before)
    /\ ~SelectionValid(frame)
    /\ flast.emits = 1
    /\ ~flast.valid

\* C28 (as stated): the cached manager and the cached context are both
\* None or both set in every state; with the host plugin absent
\* manager_and_context() returns (None, None) and caches nothing, so that
\* the next call asks the host again.
C28_PairCachedAtomically ==
    /\ service.manager = None <=> service.context = None
    /\ (slast.op = "manager_and_context" /\ slast.host = "absent")
          => /\ slast.pair = NoPair
             /\ service = slast.before
             /\ \A host \in HostOutcomes :
                   ManagerAndContext(service, host, queries + 1).queried = 1

\* C28 (amended): a cached context implies a cached manager; a call that
\* finds one of the two missing asks the host. With the plugin absent it
\* returns (None, None), when the command raises it raises, and both leave
\* the cache as it was; when the result has a manager but no context the
\* manager alone is cached; in these three cases the next call asks the
\* host again. Only a full result caches both.
C28_PairCachedInOrder ==
    /\ service.context # None => service.manager # None
    /\ (service.manager = None \/ service.context = None)
          => \A host \in HostOutcomes :
                ManagerAndContext(service, host, queries + 1).queried = 1
    /\ (slast.op = "manager_and_context" /\ slast.host # "-")
          => /\ slast.before.context = None
             /\ CASE slast.host = "absent" ->
                       /\ slast.pair = NoPair
                       /\ slast.err = ""
                       /\ service = slast.before
                  [] slast.host = "raises" ->
                       /\ slast.err # ""
                       /\ service = slast.before
                  [] slast.host = "incomplete" ->
                       /\ slast.err # ""
                       /\ service.manager # None
                       /\ service.context = None
                  [] OTHER ->
                       /\ service.manager # None
                       /\ service.context # None
                       /\ slast.pair = [manager |-> service.manager,
                                        context |-> service.context]
             /\ slast.host # "ok"
                   => service.manager = None \/ service.context = None

C28_Witness ==
    /\ slast.op = "manager_and_context"
    /\ slast.host = "incomplete"
    /\ slast.before.manager = None
    /\ service.manager # None
    /\ service.context = None

====
